---- MODULE Spec2Model ----
(***************************************************************************)
(* Model of the media service's asynchronous processing pipeline:          *)
(*   MediaService.processUploadedMedia   (ingest of an uploaded object)    *)
(*   WorkerService.processMessage        (queue dispatcher)                *)
(*   WorkerService.processVideoModerationMessage (moderation result)       *)
(*   VideoTranscoder.pollTranscodingJobs / checkJobStatus (transcode sweep)*)
(* Every await of a handler that touches shared state (relational store,   *)
(* job ledger tables, object store, providers, queues) is one step, so     *)
(* handlers interleave exactly where the event loop lets them.             *)
(***************************************************************************)
EXTENDS Integers, Sequences, FiniteSets, TLC

\* ------------------------------------------------------------------ bounds
\* calls of completeUpload (upload-ready messages published)
MaxUploadMsgs == 2
\* adapter / store calls that fail, over the whole run
MaxFaults == 1
\* ------------------------------------------------------------- vocabulary
MediaIds == {"m1"}
\* job ids a provider hands out
JobIds == {1}
UserId == "u1"
\* the key of an image that some other upload left in the bucket
StrayKey == [dir |-> "image", name |-> "m0", suffix |-> "", ext |-> "jpeg"]
\* a mediaId that names no row
UnknownId == "m0"
\* runs of the sweep's cron handler that can be under way at once
Sweepers == {"s1", "s2"}
\* a sweep that ends before the cron starts the next one
OneSweeper == {"s1"}
ImageTypes == {"image", "profile_picture"}
MediaTypes == {"profile_picture", "album_cover_image", "image", "video"}

\* media.controller.ts allowedMimetypes: the file extension a type can get
AllowedExt(type) == IF type = "video" THEN "mp4" ELSE "jpeg"

ImageExts == {"jpg", "jpeg", "png", "gif", "bmp", "tiff", "webp"}
VideoExts == {"mp4", "mov", "avi", "wmv", "flv", "mkv", "webm", "m4v", "3gp", "quicktime"}

isImage(key) == key.ext \in ImageExts
isVideo(key) == key.ext \in VideoExts

\* `https://${cloudFrontDomain}/${key}`
CdnUrl(key) == [kind |-> "cdn", key |-> key]

\* key.replace(/(\.\w+)$/, suffix): a derived object key
thumbnailKey(key) == [key EXCEPT !.suffix = "_thumbnail"]
optimizedKey(key) == [key EXCEPT !.suffix = "_optimized", !.ext = "webp"]
responsiveKey(key, width) == [key EXCEPT !.suffix = "_" \o ToString(width) \o "px", !.ext = "webp"]

resolutions == <<320, 640, 1024, 1600>>

\* moderation taxonomy (ParentName of a label)
ExplicitParents == {"Explicit Nudity", "Violence"}
\* what the classifier can report for an uploaded object
LabelSets == {{"Alcohol"}, {"Violence"}}

\* variant of explicitContentDetected that flags on any reported label
explicitContentDetectedAnyLabel(labels) == labels # {}

explicitContentDetected(labels) == (labels \cap ExplicitParents) # {}

\* ------------------------------------------------------------------- tags
\* a tag is a sequence of characters
LowerChar(c) == CASE c = "D" -> "d" [] c = "P" -> "p" [] OTHER -> c
toLowerCase(s) == [i \in DOMAIN s |-> LowerChar(s[i])]

RECURSIVE trimStart(_)
trimStart(s) == IF s # <<>> /\ Head(s) = " " THEN trimStart(Tail(s)) ELSE s
RECURSIVE trimEnd(_)
trimEnd(s) ==
  IF s # <<>> /\ s[Len(s)] = " " THEN trimEnd(SubSeq(s, 1, Len(s) - 1)) ELSE s
trim(s) == trimEnd(trimStart(s))

InSeq(x, s) == \E i \in DOMAIN s : s[i] = x

\* Array.from(new Set(list)): first occurrences, in order
RECURSIVE Dedup(_, _)
Dedup(list, acc) ==
  IF list = <<>> THEN acc
  ELSE Dedup(Tail(list), IF InSeq(Head(list), acc) THEN acc ELSE Append(acc, Head(list)))

RECURSIVE normalizeAll(_)
normalizeAll(list) ==
  IF list = <<>> THEN <<>>
  ELSE LET t == toLowerCase(trim(Head(list)))
       IN  IF Len(t) > 0 THEN <<t>> \o normalizeAll(Tail(list))
           ELSE normalizeAll(Tail(list))

mergeTags(tags, detectedTags) == Dedup(normalizeAll(tags \o detectedTags), <<>>)

CallerTagChoices == { <<>>, << <<"D", "o", "g", " ">> >> }
\* tags play no part in the processing of a video
CallerTags(type) == IF type = "video" THEN {<<>>} ELSE CallerTagChoices
DetectChoices == { <<>>, << <<"D", "o", "g">>, <<"P">> >> }

\* --------------------------------------------------------------- metadata
EmptyMeta == [k \in {} |-> "none"]
\* { ...a, ...b }
Spread(a, b) ==
  [k \in (DOMAIN a) \cup (DOMAIN b) |-> IF k \in DOMAIN b THEN b[k] ELSE a[k]]

ExifMeta == [width |-> "exif", height |-> "exif", cameraMake |-> "exif"]
SharpMeta == [width |-> "sharp", height |-> "sharp", format |-> "sharp"]
extractImageMetadata(outcome) ==
  CASE outcome = "exif" -> ExifMeta
    [] outcome = "sharp" -> SharpMeta
    [] OTHER -> EmptyMeta

VideoMeta == [duration |-> "probe", codec |-> "probe", width |-> "probe"]
extractVideoMetadata(outcome) == IF outcome = "ok" THEN VideoMeta ELSE EmptyMeta

\* the URLs generateResponsiveImages returns when `n` puts succeeded
\* variant of responsiveUrls that keeps the renditions made before a failure
responsiveUrlsPartial(key, n) ==
  [i \in 1..n |-> CdnUrl(responsiveKey(key, resolutions[i]))]

responsiveUrls(key, n) ==
  IF n = Len(resolutions)
  THEN [i \in 1..n |-> CdnUrl(responsiveKey(key, resolutions[i]))]
  ELSE <<>>

NoUrl == [kind |-> "none"]

\* VideoTranscoder.extractFileName / extractOutputUrl
extractOutputUrl(videoKey) == [kind |-> "manifest", name |-> videoKey.name]

\* DynamoDB put: the item replaces whatever the key held
Put(table, k, item) == [x \in (DOMAIN table) \cup {k} |-> IF x = k THEN item ELSE table[x]]
\* DynamoDB update (SET ...): creates the item when the key holds none
Update(table, k, attrs) ==
  Put(table, k, Spread(IF k \in DOMAIN table THEN table[k] ELSE [jobId |-> k], attrs))

VARIABLES
  media,          \* relational store: id -> Media row
  objContent,     \* object store: key of an uploaded object -> its labels
  s3Objects,      \* object store: derived objects written by the pipeline
  mpQueue,        \* MEDIA_PROCESSING queue
  vmQueue,        \* VIDEO_MODERATION queue
  modLedger,      \* DynamoDB video_moderation_jobs: jobId -> item
  transLedger,    \* DynamoDB transcoding_jobs: jobId -> item
  rekJobs,        \* Rekognition content-moderation jobs: jobId -> job
  mcJobs,         \* MediaConvert jobs: jobId -> status
  profileEvents,  \* PROFILE_IMAGE_UPDATE events published
  iw,             \* the MEDIA_PROCESSING consumer (processMessage)
  mw,             \* the VIDEO_MODERATION consumer (processMessage)
  sw,             \* the transcode sweeps (pollTranscodingJobs), one per run of the cron
  uploads,        \* completeUpload calls so far
  faults,         \* failed calls so far
  handled,        \* upload-ready messages whose handler returned without error
  reconciled,     \* moderation results (job ids) whose handler returned without error
  presigned       \* what the last presigned-url request was and what it returned

vars == <<media, objContent, s3Objects, mpQueue, vmQueue, modLedger, transLedger,
          rekJobs, mcJobs, profileEvents, iw, mw, sw, uploads, faults, handled, reconciled,
          presigned>>

stores == <<media, s3Objects, modLedger, transLedger, rekJobs, mcJobs, profileEvents>>

NoEntity == [id |-> "none"]
NoMessage == [id |-> 0]

\* worker-local state of one handler execution; called, modFailed and again
\* record what the execution did and whether its message had been handled
\* before, before is the row as the execution found it, detected is what
\* detectObjects returned, and unconfigured tells that moderateVideo threw for
\* the missing configuration; batch holds the messages of the receiveMessage
\* response being worked through and at the position of the current one
IdleIw ==
  [pc |-> "idle", msg |-> NoMessage, ent |-> NoEntity, imageMetadata |-> EmptyMeta,
   modJob |-> 0, transJob |-> 0, called |-> {}, modFailed |-> FALSE, again |-> FALSE,
   before |-> NoEntity, detected |-> <<>>, unconfigured |-> FALSE,
   batch |-> <<>>, at |-> 0]
IdleMw == [pc |-> "idle", msg |-> NoMessage, ent |-> NoEntity, again |-> FALSE]
IdleSw ==
  [pc |-> "idle", jobs |-> {}, job |-> 0, status |-> "none", ent |-> NoEntity,
   probe |-> EmptyMeta]

Init ==
  /\ media = [i \in {} |-> 0]
  /\ objContent = (StrayKey :> {"Alcohol"})
  /\ s3Objects = {}
  /\ mpQueue = {}
  /\ vmQueue = {}
  /\ modLedger = [i \in {} |-> 0]
  /\ transLedger = [i \in {} |-> 0]
  /\ rekJobs = [i \in {} |-> 0]
  /\ mcJobs = [i \in {} |-> 0]
  /\ profileEvents = <<>>
  /\ iw = IdleIw
  /\ mw = IdleMw
  /\ sw = [w \in Sweepers |-> IdleSw]
  /\ uploads = 0
  /\ faults = 0
  /\ handled = {}
  /\ reconciled = {}
  /\ presigned = [status |-> "none"]

\* a call that may fail: its outcomes, failures only while the budget lasts
Outcomes(ok, failures) == IF faults < MaxFaults THEN ok \cup failures ELSE ok
Fault(outcome, ok) == faults' = IF outcome \in ok THEN faults ELSE faults + 1

\* ----------------------------------------------------------- HTTP surface
\* the albumId a presigned-url request can carry: none, an album the caller may
\* use, an id without an album, a private album of somebody else
AlbumCases == {"none", "own", "missing", "forbidden"}

\* variant of getAlbumById that finds every album
getAlbumByIdUnchecked(album) == "ok"

\* AlbumsService.getAlbumById: NotFoundException, ForbiddenException, or the album
getAlbumById(album) ==
  CASE album = "missing" -> "NotFound"
    [] album = "forbidden" -> "Forbidden"
    [] OTHER -> "ok"

\* MediaService.generatePresignedUrl, with the upload of the object; the album
\* is looked up before the row is saved
generatePresignedUrl(id, type, tags, labels, album) ==
  /\ id \notin DOMAIN media
  /\ LET key == [dir |-> type, name |-> id, suffix |-> "", ext |-> AllowedExt(type)]
         found == album = "none" \/ getAlbumById(album) = "ok"
         request == [type |-> type, tags |-> tags, album |-> album]
     IN  /\ media' = IF found
                     THEN (id :> [id |-> id, key |-> key, url |-> CdnUrl(key), type |-> type,
                                  uploadedBy |-> UserId, tags |-> tags,
                                  thumbnailUrl |-> NoUrl, metadata |-> EmptyMeta,
                                  isFlagged |-> FALSE, album |-> album]) @@ media
                     ELSE media
         /\ objContent' = IF found THEN (key :> labels) @@ objContent ELSE objContent
         /\ presigned' = IF found
                         THEN [status |-> "ok", request |-> request, mediaId |-> id, key |-> key]
                         ELSE [status |-> getAlbumById(album), request |-> request]
  /\ UNCHANGED <<s3Objects, mpQueue, vmQueue, modLedger, transLedger, rekJobs, mcJobs,
                 profileEvents, iw, mw, sw, uploads, faults, handled, reconciled>>

\* variant of completeUpload that also stores the body's tags in the row
completeUploadStoringTags(id, key, tags) ==
  /\ uploads < MaxUploadMsgs
  /\ uploads' = uploads + 1
  /\ mpQueue' = mpQueue \cup {[id |-> uploads + 1, mediaId |-> id, key |-> key, tags |-> tags,
                               userId |-> UserId]}
  /\ media' = IF id \in DOMAIN media THEN [media EXCEPT ![id].tags = tags] ELSE media
  /\ UNCHANGED <<objContent, s3Objects, vmQueue, modLedger, transLedger, rekJobs,
                 mcJobs, profileEvents, iw, mw, sw, faults, handled, reconciled, presigned>>

\* MediaService.completeUpload: publish one MEDIA_PROCESSING event carrying the
\* mediaId, the key and the tags of the request body (tags are optional);
\* nothing of the body is looked up
completeUpload(id, key, tags) ==
  /\ uploads < MaxUploadMsgs
  /\ uploads' = uploads + 1
  /\ mpQueue' = mpQueue \cup {[id |-> uploads + 1, mediaId |-> id, key |-> key, tags |-> tags,
                               userId |-> UserId]}
  /\ UNCHANGED <<media, objContent, s3Objects, vmQueue, modLedger, transLedger, rekJobs,
                 mcJobs, profileEvents, iw, mw, sw, faults, handled, reconciled, presigned>>

\* ------------------------------------------- MEDIA_PROCESSING consumer
iwKey == iw.msg.key
iwMediaId == iw.msg.mediaId

\* variant of afterFindOne that returns normally when the row is missing
afterFindOneSkippingMissing(id) ==
  IF id \notin DOMAIN media THEN "deleteMessage"
  ELSE CASE media[id].type \in ImageTypes -> "moderateContent"
         [] media[id].type = "video" -> "moderateVideo"
         [] OTHER -> "save"

\* processUploadedMedia after manager.findOne: a missing row throws
\* 'Media not found', otherwise the branch is chosen by media.type
afterFindOne(id) ==
  IF id \notin DOMAIN media THEN "raise"
  ELSE CASE media[id].type \in ImageTypes -> "moderateContent"
         [] media[id].type = "video" -> "moderateVideo"
         [] OTHER -> "save"

\* WorkerService.processMessage routes a received message to
\* processUploadedMedia, which opens its transaction with
\* manager.findOne(Media, id) and branches on media.type
processMessage(m, batch, at) ==
  /\ iw.pc = "idle"
  /\ iw' = IF m.mediaId \notin DOMAIN media
           THEN [IdleIw EXCEPT !.pc = afterFindOne(m.mediaId), !.msg = m,
                               !.again = (m.id \in handled),
                               !.batch = batch, !.at = at]
           ELSE [IdleIw EXCEPT
                  !.pc = afterFindOne(m.mediaId),
                  !.msg = m, !.ent = media[m.mediaId], !.again = (m.id \in handled),
                  !.before = media[m.mediaId], !.batch = batch, !.at = at]
  /\ UNCHANGED <<media, objContent, s3Objects, mpQueue, vmQueue, modLedger, transLedger,
                 rekJobs, mcJobs, profileEvents, mw, sw, uploads, faults, handled, reconciled, presigned>>

\* one message received on its own
receiveUpload(m) ==
  /\ iw.batch = <<>>
  /\ m \in mpQueue
  /\ processMessage(m, <<>>, 0)

\* the responses receiveMessage can give: the visible messages, in any order
Batches == {b \in UNION {[1..n -> mpQueue] : n \in 1..Cardinality(mpQueue)} :
              \A i, j \in DOMAIN b : b[i] = b[j] => i = j}

\* WorkerService.pollQueue: receiveMessage, then the loop's first processMessage
pollQueue(batch) ==
  /\ iw.batch = <<>>
  /\ batch \in Batches
  /\ processMessage(batch[1], batch, 1)

\* pollQueue's loop: processMessage of the next message of the response
pollQueueNext ==
  /\ iw.at < Len(iw.batch)
  /\ processMessage(iw.batch[iw.at + 1], iw.batch, iw.at + 1)

\* processMessage has returned: back in pollQueue's loop, or out of it
endOfMessage ==
  IF iw.at < Len(iw.batch) THEN [IdleIw EXCEPT !.batch = iw.batch, !.at = iw.at] ELSE IdleIw

\* ContentModerator.moderateImage: true iff a label of the taxonomy is reported;
\* every failure is caught and answered with false
moderateImage(k, outcome) ==
  IF outcome = "ok" /\ k \in DOMAIN objContent
  THEN explicitContentDetected(objContent[k])
  ELSE FALSE

\* ContentModerator.moderateContent for a key with an image extension; a key
\* without one is answered false (upload-ready messages carry the record's key)
moderateContent(k, outcome) == IF isImage(k) THEN moderateImage(k, outcome) ELSE FALSE

\* variant of afterModeration that enriches a flagged image as well
afterModerationNoSkip(moderationResult) == "detectObjects"

\* if (!moderationResult) { ...enrichment... }: what follows the moderation
afterModeration(moderationResult) == IF moderationResult THEN "save" ELSE "detectObjects"

\* media.isFlagged = moderationResult, then the branch on it
ingestModerateContent ==
  /\ iw.pc = "moderateContent"
  /\ \E o \in Outcomes({"ok"}, {"error"}) :
       LET flagged == moderateContent(iwKey, o)
       IN  /\ iw' = [iw EXCEPT !.pc = afterModeration(flagged),
                                !.ent = [iw.ent EXCEPT !.isFlagged = flagged],
                                !.called = @ \cup {"moderateContent"},
                                !.modFailed = (o # "ok")]
           /\ Fault(o, {"ok"})
  /\ UNCHANGED <<media, objContent, s3Objects, mpQueue, vmQueue, modLedger, transLedger,
                 rekJobs, mcJobs, profileEvents, mw, sw, uploads, handled, reconciled, presigned>>

\* ObjectDetector.detectObjects (a failure returns []) and the tag union
ingestDetectObjects ==
  /\ iw.pc = "detectObjects"
  /\ \E detectedTags \in DetectChoices :
       iw' = [iw EXCEPT !.pc = "generateImageThumbnail",
                        !.ent = [iw.ent EXCEPT !.tags = mergeTags(iw.ent.tags, detectedTags)],
                        !.called = @ \cup {"detectObjects"}, !.detected = detectedTags]
  /\ UNCHANGED <<media, objContent, s3Objects, mpQueue, vmQueue, modLedger, transLedger,
                 rekJobs, mcJobs, profileEvents, mw, sw, uploads, faults, handled, reconciled, presigned>>

\* variant of afterDerived that carries on after a failed call
afterDerivedSwallowed(ok, next) == next

\* generateImageThumbnail, optimizeImage and s3.getObject are awaited without a
\* try: their exception leaves processUploadedMedia
afterDerived(ok, next) == IF ok THEN next ELSE "raise"

\* MediaService.generateImageThumbnail: puts the thumbnail object, returns the
\* URL built from `key`; a failure is rethrown
ingestGenerateImageThumbnail ==
  /\ iw.pc = "generateImageThumbnail"
  /\ \E o \in Outcomes({"ok"}, {"error"}) :
       /\ iw' = [iw EXCEPT !.pc = afterDerived(o = "ok", "optimizeImage"),
                           !.ent = IF o = "ok"
                                   THEN [iw.ent EXCEPT !.thumbnailUrl = CdnUrl(iwKey)]
                                   ELSE iw.ent,
                           !.called = @ \cup {"generateImageThumbnail"}]
       /\ s3Objects' = IF o = "ok" THEN s3Objects \cup {thumbnailKey(iwKey)} ELSE s3Objects
       /\ Fault(o, {"ok"})
  /\ UNCHANGED <<media, objContent, mpQueue, vmQueue, modLedger, transLedger,
                 rekJobs, mcJobs, profileEvents, mw, sw, uploads, handled, reconciled, presigned>>

\* MediaService.optimizeImage: puts the optimized object, returns the URL built
\* from `key`; a failure is rethrown
ingestOptimizeImage ==
  /\ iw.pc = "optimizeImage"
  /\ \E o \in Outcomes({"ok"}, {"error"}) :
       /\ iw' = [iw EXCEPT !.pc = afterDerived(o = "ok", "getObject"),
                           !.ent = IF o = "ok" THEN [iw.ent EXCEPT !.url = CdnUrl(iwKey)]
                                   ELSE iw.ent,
                           !.called = @ \cup {"optimizeImage"}]
       /\ s3Objects' = IF o = "ok" THEN s3Objects \cup {optimizedKey(iwKey)} ELSE s3Objects
       /\ Fault(o, {"ok"})
  /\ UNCHANGED <<media, objContent, mpQueue, vmQueue, modLedger, transLedger,
                 rekJobs, mcJobs, profileEvents, mw, sw, uploads, handled, reconciled, presigned>>

\* s3.getObject (a failure is thrown) and extractImageMetadata (never throws)
ingestGetObject ==
  /\ iw.pc = "getObject"
  /\ \E o \in Outcomes({"exif", "sharp", "none"}, {"error"}) :
       /\ iw' = [iw EXCEPT !.pc = afterDerived(o # "error", "generateResponsiveImages"),
                           !.imageMetadata = IF o # "error" THEN extractImageMetadata(o) ELSE @,
                           !.called = IF o # "error" THEN @ \cup {"extractImageMetadata"} ELSE @]
       /\ Fault(o, {"exif", "sharp", "none"})
  /\ UNCHANGED <<media, objContent, s3Objects, mpQueue, vmQueue, modLedger, transLedger,
                 rekJobs, mcJobs, profileEvents, mw, sw, uploads, handled, reconciled, presigned>>

\* MediaService.generateResponsiveImages: n of the puts succeed; any failure
\* returns []; then media.metadata = {...imageMetadata, responsiveImages}
ingestGenerateResponsiveImages ==
  /\ iw.pc = "generateResponsiveImages"
  /\ \E n \in Outcomes({Len(resolutions)}, {0, 2}) :
       /\ iw' = [iw EXCEPT
                  !.pc = IF iw.ent.type = "profile_picture" THEN "updateUserProfilePicture"
                         ELSE "save",
                  !.ent = [iw.ent EXCEPT
                            !.metadata = Spread(iw.imageMetadata,
                                                [responsiveImages |-> responsiveUrls(iwKey, n)])],
                  !.called = @ \cup {"generateResponsiveImages"}]
       /\ s3Objects' = s3Objects \cup {responsiveKey(iwKey, resolutions[i]) : i \in 1..n}
       /\ Fault(n, {Len(resolutions)})
  /\ UNCHANGED <<media, objContent, mpQueue, vmQueue, modLedger, transLedger,
                 rekJobs, mcJobs, profileEvents, mw, sw, uploads, handled, reconciled, presigned>>

\* the URL updateUserProfilePicture sends: it reads the row again through the
\* transaction's manager, so it sees the stored row, not the entity in memory
profilePictureUrl(row) == IF row.thumbnailUrl # NoUrl THEN row.thumbnailUrl ELSE row.url

\* variant of afterPublish that swallows a failed publish
afterPublishSwallowed(published) == "save"

\* updateUserProfilePicture returns when the event was published and throws
\* BadRequestException when it was not
afterPublish(published) == IF published THEN "save" ELSE "raise"

\* MediaService.updateUserProfilePicture: publish PROFILE_IMAGE_UPDATE
ingestUpdateUserProfilePicture ==
  /\ iw.pc = "updateUserProfilePicture"
  /\ \E o \in Outcomes({"ok"}, {"error"}) :
       /\ iw' = [iw EXCEPT !.pc = afterPublish(o = "ok" /\ iwMediaId \in DOMAIN media),
                           !.called = @ \cup {"updateUserProfilePicture"}]
       /\ profileEvents' =
            IF o = "ok" /\ iwMediaId \in DOMAIN media
            THEN Append(profileEvents, [imageURL |-> profilePictureUrl(media[iwMediaId]),
                                        userId |-> iw.msg.userId])
            ELSE profileEvents
       /\ Fault(o, {"ok"})
  /\ UNCHANGED <<media, objContent, s3Objects, mpQueue, vmQueue, modLedger, transLedger,
                 rekJobs, mcJobs, mw, sw, uploads, handled, reconciled, presigned>>

\* variant of afterModerateVideo that carries on without a job
afterModerateVideoSwallowed(started) == "putModerationJob"

\* the catch around the video branch rethrows what moderateVideo threw
afterModerateVideo(started) == IF started THEN "putModerationJob" ELSE "raise"

\* ContentModerator.moderateVideo: throws when AWS_SNS_VIDEO_MODERATION_ARN or
\* AWS_REKOGNITION_ROLE_ARN is not set ("unconfigured"), otherwise calls
\* startContentModeration with JobTag = mediaId
ingestModerateVideoUpTo(maxJobs) ==
  /\ iw.pc = "moderateVideo"
  /\ Cardinality(DOMAIN rekJobs) < maxJobs
  /\ \E o \in Outcomes({"ok"}, {"error", "unconfigured"}) :
       LET jobId == Cardinality(DOMAIN rekJobs) + 1
       IN  /\ iw' = [iw EXCEPT
                      !.pc = afterModerateVideo(o = "ok"),
                      !.modJob = IF o = "ok" THEN jobId ELSE @,
                      !.called = @ \cup {"moderateVideo"},
                      !.unconfigured = (o = "unconfigured")]
           /\ rekJobs' = IF o = "ok"
                         THEN Put(rekJobs, jobId, [JobTag |-> iwMediaId, key |-> iwKey,
                                                   Status |-> "IN_PROGRESS"])
                         ELSE rekJobs
           /\ Fault(o, {"ok"})
  /\ UNCHANGED <<media, objContent, s3Objects, mpQueue, vmQueue, modLedger, transLedger,
                 mcJobs, profileEvents, mw, sw, uploads, handled, reconciled, presigned>>

ingestModerateVideo == ingestModerateVideoUpTo(Cardinality(JobIds))

\* the item processUploadedMedia puts into video_moderation_jobs
moderationJobItem(mediaId, jobId, key) ==
  [mediaId |-> mediaId, jobId |-> jobId, key |-> key, status |-> "PENDING"]

\* variant of afterLedgerWrite that carries on after a failed put
afterLedgerWriteSwallowed(written, next) == next

\* both ledger puts are awaited inside the try of the video branch: a failed
\* put is rethrown
afterLedgerWrite(written, next) == IF written THEN next ELSE "raise"

\* dynamoDB.put into video_moderation_jobs
ingestPutModerationJob ==
  /\ iw.pc = "putModerationJob"
  /\ \E o \in Outcomes({"ok"}, {"error"}) :
       /\ iw' = [iw EXCEPT !.pc = afterLedgerWrite(o = "ok", "transcodeVideo")]
       /\ modLedger' = IF o = "ok"
                       THEN Put(modLedger, iw.modJob,
                                moderationJobItem(iwMediaId, iw.modJob, iwKey))
                       ELSE modLedger
       /\ Fault(o, {"ok"})
  /\ UNCHANGED <<media, objContent, s3Objects, mpQueue, vmQueue, transLedger, rekJobs,
                 mcJobs, profileEvents, mw, sw, uploads, handled, reconciled, presigned>>

\* VideoTranscoder.transcodeVideo up to createJob: the key must lie under
\* video/, then the job is created at MediaConvert
ingestTranscodeVideoUpTo(maxJobs) ==
  /\ iw.pc = "transcodeVideo"
  /\ Cardinality(DOMAIN mcJobs) < maxJobs
  /\ \E o \in Outcomes({"ok"}, {"error"}) :
       LET jobId == Cardinality(DOMAIN mcJobs) + 1
           created == o = "ok" /\ iwKey.dir = "video"
       IN  /\ iw' = IF created
                    THEN [iw EXCEPT !.pc = "saveTranscodingJob", !.transJob = jobId,
                                    !.called = @ \cup {"transcodeVideo"}]
                    ELSE [iw EXCEPT !.pc = "raise", !.called = @ \cup {"transcodeVideo"}]
           /\ mcJobs' = IF created THEN Put(mcJobs, jobId, "SUBMITTED") ELSE mcJobs
           /\ Fault(o, {"ok"})
  /\ UNCHANGED <<media, objContent, s3Objects, mpQueue, vmQueue, modLedger, transLedger,
                 rekJobs, profileEvents, mw, sw, uploads, handled, reconciled, presigned>>

ingestTranscodeVideo == ingestTranscodeVideoUpTo(Cardinality(JobIds))

\* variant of transcodingJobItem that records the job as already complete
transcodingJobItemTerminal(jobId, key, mediaId) ==
  [jobId |-> jobId, status |-> "COMPLETE", videoKey |-> key, mediaId |-> mediaId]

\* the item saveTranscodingJob puts into transcoding_jobs
transcodingJobItem(jobId, key, mediaId) ==
  [jobId |-> jobId, status |-> "IN_PROGRESS", videoKey |-> key, mediaId |-> mediaId]

\* VideoTranscoder.saveTranscodingJob: dynamoDB.put into transcoding_jobs
ingestSaveTranscodingJob ==
  /\ iw.pc = "saveTranscodingJob"
  /\ \E o \in Outcomes({"ok"}, {"error"}) :
       /\ iw' = [iw EXCEPT !.pc = afterLedgerWrite(o = "ok", "save")]
       /\ transLedger' = IF o = "ok"
                         THEN Put(transLedger, iw.transJob,
                                  transcodingJobItem(iw.transJob, iwKey, iwMediaId))
                         ELSE transLedger
       /\ Fault(o, {"ok"})
  /\ UNCHANGED <<media, objContent, s3Objects, mpQueue, vmQueue, modLedger, rekJobs,
                 mcJobs, profileEvents, mw, sw, uploads, handled, reconciled, presigned>>

\* manager.save(entity) and the commit: the row takes the entity's columns
save(rows, ent) == IF ent.id \in DOMAIN rows THEN [rows EXCEPT ![ent.id] = ent] ELSE rows

\* processUploadedMedia: manager.save(media); the transaction commits and the
\* handler returns
ingestSave ==
  /\ iw.pc = "save"
  /\ \E o \in Outcomes({"ok"}, {"error"}) :
       /\ iw' = [iw EXCEPT !.pc = IF o = "ok" THEN "deleteMessage" ELSE "raise"]
       /\ media' = IF o = "ok" THEN save(media, iw.ent) ELSE media
       /\ handled' = IF o = "ok" THEN handled \cup {iw.msg.id} ELSE handled
       /\ Fault(o, {"ok"})
  /\ UNCHANGED <<objContent, s3Objects, mpQueue, vmQueue, modLedger, transLedger, rekJobs,
                 mcJobs, profileEvents, mw, sw, uploads, reconciled, presigned>>

\* processMessage after the handler returned: sqs.deleteMessage (its failure
\* is caught and logged, the message stays)
ingestDeleteMessage ==
  /\ iw.pc = "deleteMessage"
  /\ \E o \in Outcomes({"ok"}, {"error"}) :
       /\ mpQueue' = IF o = "ok" THEN mpQueue \ {iw.msg} ELSE mpQueue
       /\ Fault(o, {"ok"})
  /\ iw' = endOfMessage
  /\ UNCHANGED <<media, objContent, s3Objects, vmQueue, modLedger, transLedger, rekJobs,
                 mcJobs, profileEvents, mw, sw, uploads, handled, reconciled, presigned>>

\* variant of ingestRaise that deletes the message of a failed handler
ingestRaiseAcknowledging ==
  /\ iw.pc = "raise"
  /\ iw' = endOfMessage
  /\ mpQueue' = mpQueue \ {iw.msg}
  /\ UNCHANGED <<media, objContent, s3Objects, vmQueue, modLedger, transLedger,
                 rekJobs, mcJobs, profileEvents, mw, sw, uploads, faults, handled, reconciled, presigned>>

\* variant of ingestRaise that leaves pollQueue's loop
ingestRaiseLeavingLoop ==
  /\ iw.pc = "raise"
  /\ iw' = IdleIw
  /\ UNCHANGED <<media, objContent, s3Objects, mpQueue, vmQueue, modLedger, transLedger,
                 rekJobs, mcJobs, profileEvents, mw, sw, uploads, faults, handled, reconciled,
                 presigned>>

\* processMessage's catch: the error is logged, the message is left in the queue
ingestRaise ==
  /\ iw.pc = "raise"
  /\ iw' = endOfMessage
  /\ UNCHANGED <<media, objContent, s3Objects, mpQueue, vmQueue, modLedger, transLedger,
                 rekJobs, mcJobs, profileEvents, mw, sw, uploads, faults, handled, reconciled, presigned>>

\* ------------------------------------------------------------- providers
\* Rekognition finishes a moderation job and notifies the VIDEO_MODERATION queue
rekognitionFinish(jobId) ==
  /\ jobId \in DOMAIN rekJobs
  /\ rekJobs[jobId].Status = "IN_PROGRESS"
  /\ \E status \in Outcomes({"SUCCEEDED"}, {"FAILED"}) :
       /\ rekJobs' = [rekJobs EXCEPT ![jobId].Status = status]
       /\ vmQueue' = vmQueue \cup
            {[JobId |-> jobId, JobTag |-> rekJobs[jobId].JobTag, Status |-> status,
              ModerationLabels |-> IF status = "SUCCEEDED" /\ rekJobs[jobId].key \in DOMAIN objContent
                                   THEN objContent[rekJobs[jobId].key] ELSE {}]}
       /\ Fault(status, {"SUCCEEDED"})
  /\ UNCHANGED <<media, objContent, s3Objects, mpQueue, modLedger, transLedger, mcJobs,
                 profileEvents, iw, mw, sw, uploads, handled, reconciled, presigned>>

\* the statuses getJob reports for a job that has ended
TerminalTranscode == {"COMPLETE", "ERROR", "CANCELED"}

McNext(status) ==
  IF status = "SUBMITTED"
  THEN Outcomes({"COMPLETE"}, TerminalTranscode \ {"COMPLETE"})
  ELSE {}

\* MediaConvert ends a job: from SUBMITTED to a terminal status
mediaConvertProgress(jobId) ==
  /\ jobId \in DOMAIN mcJobs
  /\ \E status \in McNext(mcJobs[jobId]) :
       /\ mcJobs' = [mcJobs EXCEPT ![jobId] = status]
       /\ Fault(status, {"COMPLETE"})
  /\ UNCHANGED <<media, objContent, s3Objects, mpQueue, vmQueue, modLedger, transLedger,
                 rekJobs, profileEvents, iw, mw, sw, uploads, handled, reconciled, presigned>>

\* ------------------------------------------- VIDEO_MODERATION consumer
\* processMessage routes to processVideoModerationMessage: on SUCCEEDED,
\* updateModerationStatus opens with manager.findOne(Media, JobTag) (a missing
\* row ends the update without an error); any other Status marks the job FAILED
receiveModeration(m) ==
  /\ mw.pc = "idle"
  /\ m \in vmQueue
  /\ LET start == [IdleMw EXCEPT !.msg = m, !.again = (m.JobId \in reconciled)]
     IN  mw' = CASE m.Status # "SUCCEEDED" -> [start EXCEPT !.pc = "markFailed"]
                 [] m.Status = "SUCCEEDED" /\ m.JobTag \in DOMAIN media ->
                      [start EXCEPT !.pc = "save", !.ent = media[m.JobTag]]
                 [] OTHER -> [start EXCEPT !.pc = "markCompleted"]
  /\ UNCHANGED <<media, objContent, s3Objects, mpQueue, vmQueue, modLedger, transLedger,
                 rekJobs, mcJobs, profileEvents, iw, sw, uploads, faults, handled, reconciled, presigned>>

\* MediaService.updateModerationStatus: media.isFlagged = isFlagged
updateModerationStatus(ent, isFlagged) == [ent EXCEPT !.isFlagged = isFlagged]

\* processVideoModerationMessage: the verdict is applied and the row saved
moderationSave ==
  /\ mw.pc = "save"
  /\ \E o \in Outcomes({"ok"}, {"error"}) :
       /\ mw' = [mw EXCEPT !.pc = IF o = "ok" THEN "markCompleted" ELSE "raise"]
       /\ media' = IF o = "ok"
                   THEN save(media, updateModerationStatus(mw.ent,
                          explicitContentDetected(mw.msg.ModerationLabels)))
                   ELSE media
       /\ Fault(o, {"ok"})
  /\ UNCHANGED <<objContent, s3Objects, mpQueue, vmQueue, modLedger, transLedger, rekJobs,
                 mcJobs, profileEvents, iw, sw, uploads, handled, reconciled, presigned>>

\* dynamoDB.update of video_moderation_jobs to COMPLETED; its failure is
\* caught and logged, the handler returns normally
moderationMarkCompleted ==
  /\ mw.pc = "markCompleted"
  /\ \E o \in Outcomes({"ok"}, {"error"}) :
       /\ modLedger' = IF o = "ok"
                       THEN Update(modLedger, mw.msg.JobId,
                                   [status |-> "COMPLETED",
                                    isFlagged |-> explicitContentDetected(mw.msg.ModerationLabels)])
                       ELSE modLedger
       /\ Fault(o, {"ok"})
  /\ mw' = [mw EXCEPT !.pc = "deleteMessage"]
  /\ reconciled' = reconciled \cup {mw.msg.JobId}
  /\ UNCHANGED <<media, objContent, s3Objects, mpQueue, vmQueue, transLedger, rekJobs,
                 mcJobs, profileEvents, iw, sw, uploads, handled, presigned>>

\* dynamoDB.update of video_moderation_jobs to FAILED; its failure is thrown
moderationMarkFailed ==
  /\ mw.pc = "markFailed"
  /\ \E o \in Outcomes({"ok"}, {"error"}) :
       /\ modLedger' = IF o = "ok"
                       THEN Update(modLedger, mw.msg.JobId, [status |-> "FAILED"])
                       ELSE modLedger
       /\ mw' = [mw EXCEPT !.pc = IF o = "ok" THEN "deleteMessage" ELSE "raise"]
       /\ reconciled' = IF o = "ok" THEN reconciled \cup {mw.msg.JobId} ELSE reconciled
       /\ Fault(o, {"ok"})
  /\ UNCHANGED <<media, objContent, s3Objects, mpQueue, vmQueue, transLedger, rekJobs,
                 mcJobs, profileEvents, iw, sw, uploads, handled, presigned>>

\* processMessage after the handler returned: sqs.deleteMessage
moderationDeleteMessage ==
  /\ mw.pc = "deleteMessage"
  /\ \E o \in Outcomes({"ok"}, {"error"}) :
       /\ vmQueue' = IF o = "ok" THEN vmQueue \ {mw.msg} ELSE vmQueue
       /\ Fault(o, {"ok"})
  /\ mw' = IdleMw
  /\ UNCHANGED <<media, objContent, s3Objects, mpQueue, modLedger, transLedger, rekJobs,
                 mcJobs, profileEvents, iw, sw, uploads, handled, reconciled, presigned>>

\* processMessage's catch: the error is logged, the message is left in the queue
moderationRaise ==
  /\ mw.pc = "raise"
  /\ mw' = IdleMw
  /\ UNCHANGED <<media, objContent, s3Objects, mpQueue, vmQueue, modLedger, transLedger,
                 rekJobs, mcJobs, profileEvents, iw, sw, uploads, faults, handled, reconciled, presigned>>

\* -------------------------------------------------------- transcode sweep
\* checkJobStatus has ended (normally or in its catch): the next job, or idle
SwEnd(w) ==
  [IdleSw EXCEPT !.pc = IF sw[w].jobs = {} THEN "idle" ELSE "poll", !.jobs = sw[w].jobs]

\* VideoTranscoder.pollTranscodingJobs: scan transcoding_jobs for IN_PROGRESS
pollTranscodingJobs(w) ==
  /\ sw[w].pc = "idle"
  /\ LET jobs == {j \in DOMAIN transLedger : transLedger[j].status = "IN_PROGRESS"}
     IN  /\ jobs # {}
         /\ sw' = [sw EXCEPT ![w] = [IdleSw EXCEPT !.pc = "poll", !.jobs = jobs]]
  /\ UNCHANGED <<media, objContent, s3Objects, mpQueue, vmQueue, modLedger, transLedger,
                 rekJobs, mcJobs, profileEvents, iw, mw, uploads, faults, handled, reconciled, presigned>>

\* variant of afterGetJob that reconciles the row whatever the status
afterGetJobAnyStatus(status) == "updateMediaRecord"

\* checkJobStatus: only status === 'COMPLETE' enters the block that writes
\* the row; every other status goes straight to the ledger's status update
afterGetJob(status) == IF status = "COMPLETE" THEN "updateMediaRecord" ELSE "updateStatus"

\* checkJobStatus: mediaConvert.getJob, then dynamoDB.get of the ledger item
checkJobStatus(w, jobId) ==
  /\ sw[w].pc = "poll"
  /\ jobId \in sw[w].jobs
  /\ \E o \in Outcomes({"ok"}, {"error"}) :
       /\ sw' = [sw EXCEPT ![w] =
                  IF o = "ok" /\ jobId \in DOMAIN mcJobs /\ jobId \in DOMAIN transLedger
                  THEN [sw[w] EXCEPT !.pc = afterGetJob(mcJobs[jobId]),
                                     !.jobs = @ \ {jobId}, !.job = jobId,
                                     !.status = mcJobs[jobId]]
                  ELSE [sw[w] EXCEPT !.pc = IF sw[w].jobs = {jobId} THEN "idle" ELSE "poll",
                                     !.jobs = @ \ {jobId}]]
       /\ Fault(o, {"ok"})
  /\ UNCHANGED <<media, objContent, s3Objects, mpQueue, vmQueue, modLedger, transLedger,
                 rekJobs, mcJobs, profileEvents, iw, mw, uploads, handled, reconciled, presigned>>

\* variant of updateMediaRecord that leaves the url as it was
updateMediaRecordKeepingUrl(row, outputUrl) == row

\* VideoTranscoder.updateMediaRecord: UPDATE media SET url = outputUrl WHERE id
updateMediaRecord(row, outputUrl) == [row EXCEPT !.url = outputUrl]

\* checkJobStatus on COMPLETE: the row gets the output URL
sweepUpdateMediaRecord(w) ==
  /\ sw[w].pc = "updateMediaRecord"
  /\ \E o \in Outcomes({"ok"}, {"error"}) :
       LET item == transLedger[sw[w].job]
       IN  /\ media' = IF o = "ok" /\ item.mediaId \in DOMAIN media
                       THEN [media EXCEPT ![item.mediaId] =
                               updateMediaRecord(@, extractOutputUrl(item.videoKey))]
                       ELSE media
           /\ sw' = [sw EXCEPT ![w] = IF o = "ok" THEN [sw[w] EXCEPT !.pc = "findOne"]
                                            ELSE SwEnd(w)]
           /\ Fault(o, {"ok"})
  /\ UNCHANGED <<objContent, s3Objects, mpQueue, vmQueue, modLedger, transLedger, rekJobs,
                 mcJobs, profileEvents, iw, mw, uploads, handled, reconciled, presigned>>

\* checkJobStatus: extractVideoMetadata (a failure returns {}), then the
\* transaction's manager.findOne; a missing row ends the transaction
sweepFindOne(w) ==
  /\ sw[w].pc = "findOne"
  /\ \E o \in Outcomes({"ok"}, {"error"}) :
       LET item == transLedger[sw[w].job]
       IN  /\ sw' = [sw EXCEPT ![w] =
                      IF item.mediaId \in DOMAIN media
                      THEN [sw[w] EXCEPT !.pc = "save", !.ent = media[item.mediaId],
                                         !.probe = extractVideoMetadata(o)]
                      ELSE [sw[w] EXCEPT !.pc = "updateStatus"]]
           /\ Fault(o, {"ok"})
  /\ UNCHANGED <<media, objContent, s3Objects, mpQueue, vmQueue, modLedger, transLedger,
                 rekJobs, mcJobs, profileEvents, iw, mw, uploads, handled, reconciled, presigned>>

\* variant of mergeMetadata that accumulates the values of a key both sides hold
mergeMetadataAccumulating(ent, metadata) ==
  [ent EXCEPT !.metadata =
     [k \in (DOMAIN ent.metadata) \cup (DOMAIN metadata) |->
        IF k \in (DOMAIN ent.metadata) \cap (DOMAIN metadata)
        THEN ent.metadata[k] \o metadata[k]
        ELSE IF k \in DOMAIN metadata THEN metadata[k] ELSE ent.metadata[k]]]

\* checkJobStatus: media.metadata = {...media.metadata, ...metadata}
mergeMetadata(ent, metadata) == [ent EXCEPT !.metadata = Spread(ent.metadata, metadata)]

\* checkJobStatus: the merged entity is saved and the transaction commits
sweepSave(w) ==
  /\ sw[w].pc = "save"
  /\ \E o \in Outcomes({"ok"}, {"error"}) :
       /\ media' = IF o = "ok"
                   THEN save(media, mergeMetadata(sw[w].ent, sw[w].probe))
                   ELSE media
       /\ sw' = [sw EXCEPT ![w] = IF o = "ok" THEN [sw[w] EXCEPT !.pc = "updateStatus"]
                                            ELSE SwEnd(w)]
       /\ Fault(o, {"ok"})
  /\ UNCHANGED <<objContent, s3Objects, mpQueue, vmQueue, modLedger, transLedger, rekJobs,
                 mcJobs, profileEvents, iw, mw, uploads, handled, reconciled, presigned>>

\* checkJobStatus: dynamoDB.update of transcoding_jobs SET status = the
\* status MediaConvert reported
sweepUpdateStatus(w) ==
  /\ sw[w].pc = "updateStatus"
  /\ \E o \in Outcomes({"ok"}, {"error"}) :
       /\ transLedger' = IF o = "ok"
                         THEN Update(transLedger, sw[w].job, [status |-> sw[w].status])
                         ELSE transLedger
       /\ Fault(o, {"ok"})
  /\ sw' = [sw EXCEPT ![w] = SwEnd(w)]
  /\ UNCHANGED <<media, objContent, s3Objects, mpQueue, vmQueue, modLedger, rekJobs,
                 mcJobs, profileEvents, iw, mw, uploads, handled, reconciled, presigned>>

\* ---------------------------------------------------------- specification
Next ==
  \/ \E id \in MediaIds, type \in MediaTypes, labels \in LabelSets :
       \E tags \in CallerTags(type) : generatePresignedUrl(id, type, tags, labels, "none")
  \/ \E id \in DOMAIN media : completeUpload(id, media[id].key, <<>>)
  \/ \E m \in mpQueue : receiveUpload(m)
  \/ ingestModerateContent
  \/ ingestDetectObjects
  \/ ingestGenerateImageThumbnail
  \/ ingestOptimizeImage
  \/ ingestGetObject
  \/ ingestGenerateResponsiveImages
  \/ ingestUpdateUserProfilePicture
  \/ ingestModerateVideo
  \/ ingestPutModerationJob
  \/ ingestTranscodeVideo
  \/ ingestSaveTranscodingJob
  \/ ingestSave
  \/ ingestDeleteMessage
  \/ ingestRaise
  \/ \E j \in DOMAIN rekJobs : rekognitionFinish(j)
  \/ \E j \in DOMAIN mcJobs : mediaConvertProgress(j)
  \/ \E m \in vmQueue : receiveModeration(m)
  \/ moderationSave
  \/ moderationMarkCompleted
  \/ moderationMarkFailed
  \/ moderationDeleteMessage
  \/ moderationRaise
  \/ \E w \in OneSweeper : pollTranscodingJobs(w)
  \/ \E w \in OneSweeper, j \in DOMAIN transLedger : checkJobStatus(w, j)
  \/ \E w \in OneSweeper : sweepUpdateMediaRecord(w)
  \/ \E w \in OneSweeper : sweepFindOne(w)
  \/ \E w \in OneSweeper : sweepSave(w)
  \/ \E w \in OneSweeper : sweepUpdateStatus(w)

Spec == Init /\ [][Next]_vars

\* @Cron('*/2 * * * *') handleJobPolling: the sweep is started every two
\* minutes and each of its awaits returns, so a sweep step that stays
\* possible is taken
SweepStep ==
  \/ \E w \in OneSweeper : pollTranscodingJobs(w)
  \/ \E w \in OneSweeper, j \in DOMAIN transLedger : checkJobStatus(w, j)
  \/ \E w \in OneSweeper : sweepUpdateMediaRecord(w)
  \/ \E w \in OneSweeper : sweepFindOne(w)
  \/ \E w \in OneSweeper : sweepSave(w)
  \/ \E w \in OneSweeper : sweepUpdateStatus(w)

FairSpec == Spec /\ WF_vars(SweepStep)

\* the transcode path of one video with overlapping sweeps: a sweep that
\* takes longer than the cron's two minutes is still under way when the next
\* one starts
OverlapNext ==
  \/ \E id \in MediaIds, labels \in LabelSets : generatePresignedUrl(id, "video", <<>>, labels, "none")
  \/ \E id \in DOMAIN media : completeUpload(id, media[id].key, <<>>)
  \/ \E m \in mpQueue : receiveUpload(m)
  \/ ingestModerateVideo
  \/ ingestPutModerationJob
  \/ ingestTranscodeVideo
  \/ ingestSaveTranscodingJob
  \/ ingestSave
  \/ ingestDeleteMessage
  \/ ingestRaise
  \/ \E j \in DOMAIN mcJobs : mediaConvertProgress(j)
  \/ \E w \in Sweepers : pollTranscodingJobs(w)
  \/ \E w \in Sweepers, j \in DOMAIN transLedger : checkJobStatus(w, j)
  \/ \E w \in Sweepers : sweepUpdateMediaRecord(w)
  \/ \E w \in Sweepers : sweepFindOne(w)
  \/ \E w \in Sweepers : sweepSave(w)
  \/ \E w \in Sweepers : sweepUpdateStatus(w)

OverlapSpec == Init /\ [][OverlapNext]_vars

\* the keys a complete-upload request can name for an asset: the key issued
\* with the presigned URL, or any other key (the body is not checked against
\* the row)
DtoKeys(id) == {media[id].key, StrayKey}

\* the image path with complete-upload requests that name any key and any tags
DtoNext ==
  \/ \E id \in MediaIds, type \in ImageTypes, labels \in LabelSets :
       \E tags \in CallerTags(type) : generatePresignedUrl(id, type, tags, labels, "none")
  \/ \E id \in DOMAIN media : \E key \in DtoKeys(id), tags \in CallerTagChoices :
       completeUpload(id, key, tags)
  \/ \E m \in mpQueue : receiveUpload(m)
  \/ ingestModerateContent
  \/ ingestDetectObjects
  \/ ingestGenerateImageThumbnail
  \/ ingestOptimizeImage
  \/ ingestGetObject
  \/ ingestGenerateResponsiveImages
  \/ ingestUpdateUserProfilePicture
  \/ ingestSave
  \/ ingestDeleteMessage
  \/ ingestRaise

DtoSpec == Init /\ [][DtoNext]_vars

\* WorkerService.handleCron polls MEDIA_PROCESSING every minute and
\* processMessage runs each received message to its end
IngestStep ==
  \/ \E m \in mpQueue : receiveUpload(m)
  \/ ingestModerateContent
  \/ ingestDetectObjects
  \/ ingestGenerateImageThumbnail
  \/ ingestOptimizeImage
  \/ ingestGetObject
  \/ ingestGenerateResponsiveImages
  \/ ingestUpdateUserProfilePicture
  \/ ingestSave
  \/ ingestDeleteMessage
  \/ ingestRaise

\* the image path with complete-upload requests that may name no row
RetryNext ==
  \/ \E id \in MediaIds, type \in ImageTypes, labels \in LabelSets :
       generatePresignedUrl(id, type, <<>>, labels, "none")
  \/ \E id \in DOMAIN media : completeUpload(id, media[id].key, <<>>)
  \/ completeUpload(UnknownId, StrayKey, <<>>)
  \/ IngestStep

RetrySpec == Init /\ [][RetryNext]_vars /\ WF_vars(IngestStep)

\* the image path with presigned-url requests that may name an album
AlbumNext ==
  \/ \E id \in MediaIds, type \in ImageTypes, labels \in LabelSets :
       \E tags \in CallerTags(type), album \in AlbumCases :
         generatePresignedUrl(id, type, tags, labels, album)
  \/ \E id \in DOMAIN media : completeUpload(id, media[id].key, <<>>)
  \/ IngestStep

AlbumSpec == Init /\ [][AlbumNext]_vars

\* job submissions the providers accept in RedeliverySpec
MaxSubmissions == 2

\* the ingest of a video on its own, with room for a second pair of jobs
RedeliveryNext ==
  \/ \E id \in MediaIds, labels \in LabelSets :
       generatePresignedUrl(id, "video", <<>>, labels, "none")
  \/ \E id \in DOMAIN media : completeUpload(id, media[id].key, <<>>)
  \/ \E m \in mpQueue : receiveUpload(m)
  \/ ingestModerateVideoUpTo(MaxSubmissions)
  \/ ingestPutModerationJob
  \/ ingestTranscodeVideoUpTo(MaxSubmissions)
  \/ ingestSaveTranscodingJob
  \/ ingestSave
  \/ ingestDeleteMessage
  \/ ingestRaise

RedeliverySpec == Init /\ [][RedeliveryNext]_vars

\* the image path with messages received in batches
BatchNext ==
  \/ \E id \in MediaIds, type \in ImageTypes, labels \in LabelSets :
       generatePresignedUrl(id, type, <<>>, labels, "none")
  \/ \E id \in DOMAIN media : completeUpload(id, media[id].key, <<>>)
  \/ \E batch \in Batches : pollQueue(batch)
  \/ pollQueueNext
  \/ ingestModerateContent
  \/ ingestDetectObjects
  \/ ingestGenerateImageThumbnail
  \/ ingestOptimizeImage
  \/ ingestGetObject
  \/ ingestGenerateResponsiveImages
  \/ ingestUpdateUserProfilePicture
  \/ ingestSave
  \/ ingestDeleteMessage
  \/ ingestRaise

BatchSpec == Init /\ [][BatchNext]_vars

\* ------------------------------------------------------------- properties
\* C1: when the image-moderation call of an ingest has failed, the ingest is
\* raising the error: nothing but the moderation was called, nothing is
\* persisted and the message is not acknowledged
C1_FailedModerationAborts ==
  iw.modFailed => (iw.pc = "raise" /\ iw.called = {"moderateContent"})

\* C2: an ingest of an image whose moderation returned flagged calls nothing
\* but the moderation, and persists the row it read with the flag set and
\* nothing else changed (no thumbnail, no tags, no metadata, no renditions)
C2_FlaggedImageSkipsEnrichment ==
  (iw.pc \in {"save", "deleteMessage"} /\ iw.ent.type \in ImageTypes /\ iw.ent.isFlagged) =>
    /\ iw.called = {"moderateContent"}
    /\ iwMediaId \in DOMAIN media
    /\ iw.pc = "save" => iw.ent = [media[iwMediaId] EXCEPT !.isFlagged = TRUE]
    /\ iw.pc = "deleteMessage" => media[iwMediaId] = iw.ent

\* a flagged image has been persisted by its ingest
C2_Witness ==
  /\ iw.pc = "deleteMessage"
  /\ iw.ent.type \in ImageTypes
  /\ iw.ent.isFlagged
  /\ media[iwMediaId].isFlagged

\* C3: in every reachable state a flagged asset has no thumbnail URL and no
\* responsive renditions
C3_FlaggedHasNoArtifacts ==
  \A id \in DOMAIN media :
    media[id].isFlagged =>
      /\ media[id].thumbnailUrl = NoUrl
      /\ \/ "responsiveImages" \notin DOMAIN media[id].metadata
         \/ media[id].metadata.responsiveImages = <<>>

\* C4: an ingest started by a message whose ingest had already completed
\* calls no adapter (it is a no-op)
C4_RedeliveryIsNoOp ==
  iw.again => iw.called = {}

C6_CompleteOnlyWhenBothTerminal ==
  \A id \in DOMAIN media :
    (media[id].type = "video" /\ media[id].url.kind = "manifest") =>
      /\ \A j \in DOMAIN modLedger :
           ("mediaId" \in DOMAIN modLedger[j] /\ modLedger[j].mediaId = id) =>
             (modLedger[j].status = "COMPLETED" /\ ~modLedger[j].isFlagged)
      /\ \A t \in DOMAIN transLedger :
           transLedger[t].mediaId = id => transLedger[t].status = "COMPLETE"

\* C7: when the moderation ledger records a flagged verdict for an asset and
\* the asset's transcode ledger record is terminal, the asset row is flagged
C7_FlaggedVerdictSticks ==
  \A j \in DOMAIN modLedger, t \in DOMAIN transLedger :
    ( /\ "mediaId" \in DOMAIN modLedger[j]
      /\ modLedger[j].mediaId = transLedger[t].mediaId
      /\ modLedger[j].mediaId \in DOMAIN media
      /\ modLedger[j].status = "COMPLETED"
      /\ modLedger[j].isFlagged
      /\ transLedger[t].status \in TerminalTranscode
      /\ \A w \in Sweepers : sw[w].pc = "idle" ) =>
    media[modLedger[j].mediaId].isFlagged

C9_NoOrphanJobs ==
  iw.pc = "idle" =>
    /\ (DOMAIN rekJobs) \subseteq (DOMAIN modLedger)
    /\ (DOMAIN mcJobs) \subseteq (DOMAIN transLedger)

\* C10: a message leaves its queue only in the step that follows the normal
\* return of its handler, that step is entered only from the handler's last
\* call having succeeded, and the step that ends a raising handler leaves the
\* queue as it was
C10_AckOnlyAfterSuccess ==
  [][ /\ \A m \in mpQueue \ mpQueue' : iw.pc = "deleteMessage" /\ iw.msg = m
      /\ \A m \in vmQueue \ vmQueue' : mw.pc = "deleteMessage" /\ mw.msg = m
      /\ (iw'.pc = "deleteMessage" /\ iw.pc # "deleteMessage") =>
           (iw.pc = "save" /\ iw.msg.id \in handled' /\ faults' = faults)
      /\ (mw'.pc = "deleteMessage" /\ mw.pc # "deleteMessage") =>
           (mw.pc \in {"markCompleted", "markFailed"} /\ mw.msg.JobId \in reconciled')
      /\ (iw.pc = "raise" /\ iw' # iw) => (mpQueue' = mpQueue /\ iw.msg \in mpQueue')
      /\ (mw.pc = "raise" /\ mw' # mw) => (vmQueue' = vmQueue /\ mw.msg \in vmQueue') ]_vars

\* a handled upload-ready message has been deleted, and a moderation
\* notification whose handler raised is still in its queue
C10_Witness ==
  /\ \E id \in handled : \A m \in mpQueue : m.id # id
  /\ mw.pc = "raise"
  /\ mw.msg \in vmQueue

\* C11: under a sweep that keeps running, a ledgered transcode job that the
\* provider reports COMPLETE is eventually reconciled: the asset's URL becomes
\* the URL of the streaming manifest
C11_CompleteEventuallyReconciled ==
  \A j \in JobIds :
    (j \in DOMAIN transLedger /\ j \in DOMAIN mcJobs /\ mcJobs[j] = "COMPLETE")
      ~> (/\ j \in DOMAIN transLedger
          /\ media[transLedger[j].mediaId].url = extractOutputUrl(transLedger[j].videoKey))

\* C12: every save of a handler leaves the row as the handler's own update
\* applied to the row stored at that moment (handlers of one asset behave as
\* if run one after the other, so no committed update of another is lost)
C12_SavesAreSerialized ==
  [][ /\ (mw.pc = "save" /\ mw'.pc = "markCompleted") =>
           media'[mw.ent.id] =
             updateModerationStatus(media[mw.ent.id],
                                    explicitContentDetected(mw.msg.ModerationLabels))
      /\ \A w \in Sweepers :
           (sw[w].pc = "save" /\ sw'[w].pc = "updateStatus") =>
             media'[sw[w].ent.id] = mergeMetadata(media[sw[w].ent.id], sw[w].probe)
      /\ (iw.pc = "save" /\ iw'.pc = "deleteMessage" /\ iw.ent.type = "video") =>
           media'[iw.ent.id] = media[iw.ent.id] ]_vars

\* C13: in a run without a failed call, once the ingest and the handling of a
\* moderation notification have both finished, the ledger record of the
\* notified job is terminal (also when the notification was handled before
\* the ingest wrote the record)
C13_EarlyNotificationNotLost ==
  \A j \in reconciled :
    (faults = 0 /\ iw.pc = "idle" /\ mw.pc = "idle" /\ j \in DOMAIN modLedger) =>
      modLedger[j].status \in {"COMPLETED", "FAILED"}

\* C14: in a run without a failed call, once every sweep has ended, a
\* transcode job that was reconciled as COMPLETE (the asset's URL is the
\* manifest URL) has the ledger record a single reconciliation leaves:
\* status COMPLETE
C14_OverlappingSweepsAgree ==
  \A j \in (DOMAIN transLedger) \cap (DOMAIN mcJobs) :
    ( /\ faults = 0
      /\ \A w \in Sweepers : sw[w].pc = "idle"
      /\ mcJobs[j] = "COMPLETE"
      /\ media[transLedger[j].mediaId].url = extractOutputUrl(transLedger[j].videoKey) ) =>
    transLedger[j].status = "COMPLETE"

\* C15: for a profile-picture ingest the record write and the notification
\* are all-or-nothing: when the record write fails after the notification
\* was sent, the notification is not left published, and a clean record is
\* committed only by an ingest that has published its notification
C15_ProfileAllOrNothing ==
  [][ /\ (iw.pc = "save" /\ iw'.pc = "raise" /\ "updateUserProfilePicture" \in iw.called) =>
           Len(profileEvents') < Len(profileEvents)
      /\ (iw.pc = "save" /\ iw'.pc = "deleteMessage" /\ iw.ent.type = "profile_picture"
             /\ ~iw.ent.isFlagged) =>
           ("updateUserProfilePicture" \in iw.called /\ Len(profileEvents) > 0) ]_vars

\* C16: when the profile-picture notification of an ingest is not published
\* the ingest raises; the raising image ingest leaves the asset row exactly as
\* it found it and its message in the queue
C16_FailedNotificationRollsBack ==
  [][ /\ (iw.pc = "updateUserProfilePicture" /\ iw' # iw /\ profileEvents' = profileEvents) =>
           (iw'.pc = "raise" /\ media' = media)
      /\ (iw.pc = "raise" /\ iw' # iw /\ "updateUserProfilePicture" \in iw.called) =>
           /\ media'[iwMediaId] = iw.before
           /\ iw'.pc = "idle"
           /\ iw.msg \in mpQueue' ]_vars

\* a profile-picture ingest is raising after its publish failed: nothing was
\* published, derived objects exist, the row is as the ingest found it
C16_Witness ==
  /\ iw.pc = "raise"
  /\ "updateUserProfilePicture" \in iw.called
  /\ profileEvents = <<>>
  /\ thumbnailKey(iwKey) \in s3Objects
  /\ media[iwMediaId] = iw.before
  /\ iw.msg \in mpQueue

\* C17: the notification a profile-picture ingest publishes carries the
\* thumbnail URL that ingest generated, and its primary URL only when it has
\* no thumbnail
C17_NotificationCarriesIngestUrl ==
  [][ (iw.pc = "updateUserProfilePicture" /\ Len(profileEvents') > Len(profileEvents)) =>
        profileEvents'[Len(profileEvents')].imageURL =
          (IF iw.ent.thumbnailUrl # NoUrl THEN iw.ent.thumbnailUrl ELSE iw.ent.url) ]_vars

\* C18: when generateImageThumbnail, optimizeImage or the read of the source
\* object fails in the ingest of a clean image, the handler raises without
\* having written the row, and the raising handler leaves the row as it found
\* it and its message in the queue
C18_FailedDerivationAborts ==
  [][ /\ (iw.pc \in {"generateImageThumbnail", "optimizeImage", "getObject"} /\ faults' > faults) =>
          (iw'.pc = "raise" /\ media' = media /\ mpQueue' = mpQueue)
      /\ (/\ iw.pc = "raise" /\ iw' # iw
          /\ "detectObjects" \in iw.called
          /\ "generateResponsiveImages" \notin iw.called) =>
          (/\ media'[iwMediaId] = iw.before
           /\ iw.msg \in mpQueue'
           /\ iw'.pc = "idle") ]_vars

\* a clean image ingest that failed after its thumbnail was put stands at the
\* raise with the row untouched and the message still queued
C18_Witness ==
  /\ iw.pc = "raise"
  /\ {"detectObjects", "generateImageThumbnail", "optimizeImage"} \subseteq iw.called
  /\ "generateResponsiveImages" \notin iw.called
  /\ thumbnailKey(iwKey) \in s3Objects
  /\ faults = 1
  /\ media[iwMediaId] = iw.before
  /\ iw.msg \in mpQueue

\* C19: when the ingest of an image that moderation found clean has saved the
\* row and deleted its message, the row has a thumbnail URL, an optimized URL
\* and one responsive rendition for each width of resolutions
C19_CleanImageFullyDerived ==
  [][ (/\ iw.pc = "deleteMessage" /\ iw.msg \notin mpQueue'
       /\ iw.ent.type \in ImageTypes
       /\ ~iw.ent.isFlagged /\ ~iw.modFailed) =>
        LET row == media'[iwMediaId]
        IN  /\ row.thumbnailUrl # NoUrl
            /\ row.url # NoUrl
            /\ "responsiveImages" \in DOMAIN row.metadata
            /\ \A i \in 1..Len(resolutions) :
                 \E j \in 1..Len(row.metadata.responsiveImages) :
                   row.metadata.responsiveImages[j] =
                     CdnUrl(responsiveKey(iwKey, resolutions[i])) ]_vars

\* C20: in the ingest of a clean image, detectObjects always leads on to the
\* thumbnail (a failed detection adds no tag), a source that was read always
\* leads on to the renditions (a failed extraction leaves empty metadata), and
\* generateResponsiveImages always leads on to the publish or the save (a
\* failed generation leaves no rendition); the save then writes the thumbnail
\* and the optimized URL and hands the message over to be deleted
C20_EnrichmentFailureDegrades ==
  [][ /\ (iw.pc = "detectObjects" /\ iw' # iw) =>
          /\ iw'.pc = "generateImageThumbnail"
          /\ (iw'.ent.tags = mergeTags(iw.ent.tags, <<>>) \/ Len(iw'.ent.tags) > 0)
      /\ (iw.pc = "getObject" /\ iw' # iw /\ faults' = faults) =>
          /\ iw'.pc = "generateResponsiveImages"
          /\ (iw'.imageMetadata = EmptyMeta \/ "width" \in DOMAIN iw'.imageMetadata)
      /\ (iw.pc = "generateResponsiveImages" /\ iw' # iw) =>
          /\ iw'.pc \in {"updateUserProfilePicture", "save"}
          /\ faults' > faults => iw'.ent.metadata.responsiveImages = <<>>
      /\ (/\ iw.pc = "save" /\ iw' # iw /\ faults' = faults
          /\ "generateResponsiveImages" \in iw.called) =>
          /\ iw'.pc = "deleteMessage"
          /\ media'[iwMediaId].thumbnailUrl = CdnUrl(iwKey)
          /\ media'[iwMediaId].url = CdnUrl(iwKey)
      /\ (iw.pc = "deleteMessage" /\ iw' # iw /\ faults' = faults) =>
          iw.msg \notin mpQueue' ]_vars

\* an image whose detection found nothing, whose metadata could not be
\* extracted and whose renditions failed is stored with its thumbnail and
\* optimized URL, and its message is gone
C20_Witness ==
  /\ iw.pc = "idle" /\ mpQueue = {} /\ uploads = 1 /\ faults = 1
  /\ \E id \in DOMAIN media :
       /\ media[id].type \in ImageTypes
       /\ ~media[id].isFlagged
       /\ media[id].tags = <<>>
       /\ media[id].metadata = [responsiveImages |-> <<>>]
       /\ media[id].thumbnailUrl = CdnUrl(media[id].key)
       /\ optimizedKey(media[id].key) \in s3Objects

\* C21: the row a clean image ingest saves has as its tags exactly the
\* trimmed, lower-cased, non-empty tags among the tags supplied for the asset
\* (with the presigned URL or with the complete-upload request) and the labels
\* detectObjects returned, each once
C21_TagsAreUnionOfCallerAndDetected ==
  [][ (/\ iw.pc = "save" /\ iw'.pc = "deleteMessage"
       /\ iw.ent.type \in ImageTypes
       /\ "detectObjects" \in iw.called) =>
        LET tags == media'[iwMediaId].tags
            supplied == normalizeAll(iw.before.tags \o iw.msg.tags \o iw.detected)
        IN  /\ {tags[i] : i \in DOMAIN tags} = {supplied[i] : i \in DOMAIN supplied}
            /\ \A i, j \in DOMAIN tags : tags[i] = tags[j] => i = j ]_vars

\* C22: the save that reconciles a SUCCEEDED moderation notification leaves
\* the row flagged exactly when one of the notification's labels belongs to
\* Explicit Nudity or Violence
C22_FlagFollowsLabels ==
  [][ /\ (mw.pc = "idle" /\ mw'.pc # "idle" /\ mw'.msg.Status = "SUCCEEDED"
          /\ mw'.msg.JobTag \in DOMAIN media) => mw'.pc = "save"
      /\ (mw.pc = "save" /\ mw'.pc = "markCompleted") =>
          (media'[mw.msg.JobTag].isFlagged <=>
             \E l \in mw.msg.ModerationLabels : l \in {"Explicit Nudity", "Violence"}) ]_vars

\* a notification with a Violence label has been reconciled and the row is
\* flagged
C22_Witness ==
  /\ mw.pc = "markCompleted"
  /\ mw.msg.Status = "SUCCEEDED"
  /\ "Violence" \in mw.msg.ModerationLabels
  /\ mw.msg.JobTag \in DOMAIN media
  /\ media[mw.msg.JobTag].isFlagged

\* C23: handling a moderation notification whose JobId has no item in
\* video_moderation_jobs changes no row of media and no item of the ledger,
\* and does not raise
C23_UnknownJobDiscarded ==
  [][ (mw.pc # "idle" /\ mw' # mw /\ mw.msg.JobId \notin DOMAIN modLedger) =>
        (media' = media /\ modLedger' = modLedger /\ mw'.pc # "raise") ]_vars

\* C24: when moderateVideo throws because the notification topic or the role
\* is not configured, no Rekognition job exists, no ledger item was written,
\* the handler raises, and the raising handler leaves the row as it found it
\* and its message in the queue
C24_UnconfiguredChannelFailsLoudly ==
  [][ /\ (iw.pc = "moderateVideo" /\ iw'.unconfigured) =>
          /\ iw'.pc = "raise"
          /\ rekJobs' = rekJobs /\ modLedger' = modLedger /\ transLedger' = transLedger
          /\ media' = media
      /\ (iw.pc = "raise" /\ iw' # iw /\ iw.unconfigured) =>
          /\ iw.modJob \notin DOMAIN rekJobs
          /\ media'[iwMediaId] = iw.before
          /\ iw.msg \in mpQueue'
          /\ iw'.pc = "idle" ]_vars

\* a video ingest stopped by the missing configuration stands at the raise
\* with no job, no ledger item, the row as found and the message queued
C24_Witness ==
  /\ iw.pc = "raise"
  /\ iw.ent.type = "video"
  /\ iw.unconfigured
  /\ iw.called = {"moderateVideo"}
  /\ rekJobs = <<>> /\ DOMAIN modLedger = {}
  /\ media[iwMediaId] = iw.before
  /\ iw.msg \in mpQueue

\* C25: every message put on MEDIA_PROCESSING eventually leaves the queue
C25_NoMessageRetriedForever ==
  \A n \in 1..MaxUploadMsgs :
    (\E m \in mpQueue : m.id = n) ~> ~(\E m \in mpQueue : m.id = n)

\* C26: an ingest whose message names another key than the row's key calls
\* no adapter, writes no object and changes no row
C26_MismatchedKeyNotIngested ==
  [][ (/\ iw.pc # "idle" /\ iw' # iw
       /\ iw.before # NoEntity
       /\ iwKey # iw.before.key) =>
        (/\ iw'.called = iw.called
         /\ s3Objects' = s3Objects
         /\ media' = media) ]_vars

\* C27: the handler that saved the row of a profile picture, an album cover
\* or an image and whose message is deleted has called moderateContent
C27_ImageKindsAreModerated ==
  [][ (/\ iw.pc = "deleteMessage" /\ iw.msg \notin mpQueue'
       /\ iw.ent.type \in MediaTypes \ {"video"}) =>
        "moderateContent" \in iw.called ]_vars

\* C28: within one handler execution only the save writes the row, the save
\* of a video comes when both ledger items of the execution are written, and
\* after the save the execution writes no object, job, ledger item or
\* notification
C28_RecordWriteIsLast ==
  [][ /\ (iw' # iw /\ media' # media) => (iw.pc = "save" /\ iw'.pc = "deleteMessage")
      /\ (iw.pc = "save" /\ iw'.pc = "deleteMessage" /\ iw.ent.type = "video") =>
          /\ iw.modJob \in DOMAIN modLedger
          /\ iw.transJob \in DOMAIN transLedger
      /\ (iw.pc = "deleteMessage" /\ iw' # iw) =>
          /\ iw'.pc = "idle"
          /\ <<s3Objects', rekJobs', mcJobs', modLedger', transLedger', profileEvents', media'>>
               = <<s3Objects, rekJobs, mcJobs, modLedger, transLedger, profileEvents, media>> ]_vars

\* a video ingest has saved its row with both ledger items written
C28_Witness ==
  /\ iw.pc = "deleteMessage"
  /\ iw.ent.type = "video"
  /\ iw.msg.id \in handled
  /\ iw.modJob \in DOMAIN modLedger
  /\ iw.transJob \in DOMAIN transLedger

\* C29: a sweep that reads COMPLETE for a ledgered job goes on to
\* updateMediaRecord, which sets the row's url to the manifest URL of the
\* ledger item's videoKey; the save that follows stores the metadata read in
\* its transaction overlaid with the probed metadata; and only then the
\* ledger item's status becomes COMPLETE
C29_CompleteJobReconciled ==
  [][ \A w \in Sweepers :
        LET job == sw[w].job
            mediaId == transLedger[job].mediaId
        IN  /\ (sw[w].pc = "poll" /\ sw'[w].pc # "poll" /\ sw'[w].status = "COMPLETE") =>
                sw'[w].pc = "updateMediaRecord"
            /\ (sw[w].pc = "updateMediaRecord" /\ sw'[w].pc = "findOne"
                /\ mediaId \in DOMAIN media) =>
                media'[mediaId].url =
                  [kind |-> "manifest", name |-> transLedger[job].videoKey.name]
            /\ (sw[w].pc = "save" /\ sw'[w].pc = "updateStatus") =>
                LET old == sw[w].ent.metadata
                    new == media'[mediaId].metadata
                IN  /\ DOMAIN new = (DOMAIN old) \cup (DOMAIN sw[w].probe)
                    /\ \A k \in DOMAIN sw[w].probe : new[k] = sw[w].probe[k]
                    /\ \A k \in (DOMAIN old) \ (DOMAIN sw[w].probe) : new[k] = old[k]
            /\ (sw[w].pc # "updateStatus" /\ sw'[w].pc = "updateStatus"
                /\ sw'[w].status = "COMPLETE") =>
                (sw[w].pc \in {"findOne", "save"} /\ transLedger' = transLedger)
            /\ (sw[w].pc = "updateStatus" /\ sw[w].status = "COMPLETE"
                /\ sw'[w] # sw[w] /\ faults' = faults) =>
                transLedger'[job].status = "COMPLETE" ]_vars

\* a COMPLETE job has been reconciled: manifest URL, probed metadata, ledger
\* item COMPLETE
C29_Witness ==
  /\ \A w \in Sweepers : sw[w].pc = "idle"
  /\ \E j \in DOMAIN transLedger :
       /\ transLedger[j].status = "COMPLETE"
       /\ transLedger[j].mediaId \in DOMAIN media
       /\ media[transLedger[j].mediaId].url = extractOutputUrl(transLedger[j].videoKey)
       /\ media[transLedger[j].mediaId].metadata = VideoMeta

\* C30: the handler of a moderation notification does not go on to delete the
\* message when its ledger update failed, and when the message is deleted the
\* ledger item of its job is COMPLETED or FAILED
C30_AckOnlyAfterLedgerUpdate ==
  [][ /\ (mw.pc \in {"markCompleted", "markFailed"} /\ mw' # mw /\ faults' > faults) =>
          mw'.pc # "deleteMessage"
      /\ (mw.pc = "deleteMessage" /\ mw.msg \notin vmQueue') =>
          /\ mw.msg.JobId \in DOMAIN modLedger
          /\ modLedger[mw.msg.JobId].status \in {"COMPLETED", "FAILED"} ]_vars

C32_CompleteUploadOnlyEnqueues ==
  [][ (uploads' # uploads) =>
        /\ uploads' = uploads + 1
        /\ \E m \in mpQueue' :
             /\ m \notin mpQueue
             /\ mpQueue' = mpQueue \cup {m}
             /\ m.id = uploads'
        /\ <<media', modLedger', transLedger', s3Objects', rekJobs', mcJobs', profileEvents',
             vmQueue'>>
             = <<media, modLedger, transLedger, s3Objects, rekJobs, mcJobs, profileEvents,
                 vmQueue>>
        /\ <<iw', mw', sw'>> = <<iw, mw, sw>> ]_vars

\* a completeUpload has returned: the message waits, no handler has started,
\* and the row is as the presigned-url request left it
C32_Witness ==
  /\ uploads = 1 /\ Cardinality(mpQueue) = 1
  /\ iw.pc = "idle" /\ handled = {}
  /\ \E m \in mpQueue :
       /\ m.mediaId \in DOMAIN media
       /\ media[m.mediaId].thumbnailUrl = NoUrl
       /\ media[m.mediaId].tags # <<>>
       /\ media[m.mediaId].metadata = EmptyMeta
  /\ DOMAIN modLedger = {} /\ DOMAIN transLedger = {}

\* C33: transcodeVideo ends either raising or with the job it created at
\* MediaConvert stored in transcoding_jobs under the job's id with the asset's
\* id and the source key; it returns only from a successful put
C33_TranscodeReturnsAfterLedgerWrite ==
  [][ /\ (iw.pc = "transcodeVideo" /\ iw' # iw) =>
          \/ iw'.pc = "raise"
          \/ (iw'.pc = "saveTranscodingJob" /\ iw'.transJob \in DOMAIN mcJobs')
      /\ (iw.pc = "saveTranscodingJob" /\ iw' # iw) =>
          \/ (iw'.pc = "raise" /\ faults' > faults)
          \/ /\ iw'.pc = "save"
             /\ iw.transJob \in DOMAIN transLedger'
             /\ transLedger'[iw.transJob].jobId = iw.transJob
             /\ transLedger'[iw.transJob].mediaId = iwMediaId
             /\ transLedger'[iw.transJob].videoKey = iwKey
      /\ (iw.pc # "save" /\ iw'.pc = "save" /\ iw'.ent.type = "video") =>
          iw.pc = "saveTranscodingJob" ]_vars

\* transcodeVideo has returned: its job runs at MediaConvert and is in the
\* ledger with the asset's id
C33_Witness ==
  /\ iw.pc = "save"
  /\ iw.ent.type = "video"
  /\ iw.transJob \in DOMAIN mcJobs
  /\ iw.transJob \in DOMAIN transLedger
  /\ transLedger[iw.transJob].mediaId = iwMediaId
  /\ transLedger[iw.transJob].videoKey = iwKey

\* C34: a row that is flagged stays flagged, whatever step is taken
C34_FlagIsNeverReset ==
  [][ \A id \in DOMAIN media : media[id].isFlagged => media'[id].isFlagged ]_vars

\* C35: a ledger item whose status is terminal keeps a terminal status,
\* whatever step is taken
C35_LedgerStatusMovesForward ==
  [][ /\ \A j \in DOMAIN modLedger :
            modLedger[j].status \in {"COMPLETED", "FAILED"} =>
              (j \in DOMAIN modLedger' /\ modLedger'[j].status \in {"COMPLETED", "FAILED"})
      /\ \A j \in DOMAIN transLedger :
            transLedger[j].status \in TerminalTranscode =>
              (j \in DOMAIN transLedger' /\ transLedger'[j].status \in TerminalTranscode) ]_vars

\* C36: for each asset at most one moderation job exists at Rekognition and
\* at most one transcode job at MediaConvert (the model has one asset)
C36_AtMostOneJobPair ==
  /\ \A id \in MediaIds : Cardinality({j \in DOMAIN rekJobs : rekJobs[j].JobTag = id}) <= 1
  /\ Cardinality(DOMAIN mcJobs) <= Cardinality(MediaIds)

\* C37: within one received batch every message is passed to its handler once
\* and in the order of the batch, whether the one before it failed or not, and
\* a message leaves the queue only by the delete that follows its own handler's
\* success: a handler that raised leaves the queue as it was.
C37_BatchMessagesHandledIndependently ==
  [][/\ \A i, j \in DOMAIN iw.batch : iw.batch[i] = iw.batch[j] => i = j
     /\ (iw.pc \in {"raise", "deleteMessage"} /\ iw.at < Len(iw.batch) /\ iw' # iw) =>
          /\ iw'.pc = "idle"
          /\ iw'.batch = iw.batch
          /\ iw'.at = iw.at
     /\ (iw.pc = "idle" /\ iw.at < Len(iw.batch) /\ iw' # iw) =>
          /\ iw'.msg = iw.batch[iw.at + 1]
          /\ iw'.at = iw.at + 1
          /\ iw'.batch = iw.batch
     /\ (iw.pc = "raise" /\ iw' # iw) => mpQueue' = mpQueue
     /\ (mpQueue \ mpQueue' # {}) =>
          /\ iw.pc = "deleteMessage"
          /\ mpQueue \ mpQueue' = {iw.msg}]_vars

\* the first message of a batch of two raised and stayed in the queue, and the
\* second one has been handled and is about to be deleted
C37_Witness ==
  /\ Len(iw.batch) = 2
  /\ iw.at = 2
  /\ iw.pc = "deleteMessage"
  /\ iw.msg = iw.batch[2]
  /\ iw.batch[1] \in mpQueue
  /\ iw.batch[1].id \notin handled
  /\ faults = 1

\* C38: when the sweep polls a ledgered job whose provider status is not
\* COMPLETE, it goes straight to the ledger's status update without touching
\* the row, and that update changes nothing but the status of the job's
\* ledger item, which becomes the status the provider reported.
C38_UnfinishedJobOnlyUpdatesStatus ==
  [][\A w \in OneSweeper :
       /\ (sw[w].pc = "poll" /\ sw'[w].job \in JobIds) =>
            /\ sw'[w].status = mcJobs[sw'[w].job]
            /\ sw'[w].status # "COMPLETE" => sw'[w].pc = "updateStatus"
            /\ media' = media
            /\ transLedger' = transLedger
       /\ (sw[w].pc = "updateStatus" /\ sw[w].status # "COMPLETE" /\ sw'[w] # sw[w]) =>
            /\ media' = media
            /\ transLedger' \in {transLedger,
                                 [transLedger EXCEPT ![sw[w].job].status = sw[w].status]}
            /\ faults' = faults => transLedger'[sw[w].job].status = sw[w].status
            /\ UNCHANGED <<s3Objects, modLedger, rekJobs, mcJobs, mpQueue, vmQueue,
                           profileEvents>>]_vars

\* a polled job that MediaConvert had not finished: the ledger item now
\* carries the reported status and the row has no output URL
C38_Witness ==
  \E j \in DOMAIN transLedger :
    /\ j \in DOMAIN mcJobs
    /\ mcJobs[j] # "COMPLETE"
    /\ transLedger[j].status = mcJobs[j]
    /\ transLedger[j].mediaId \in DOMAIN media
    /\ media[transLedger[j].mediaId].url # extractOutputUrl(transLedger[j].videoKey)
    /\ sw["s1"].pc = "idle"

\* C39: an upload-ready message whose asset id has no row is answered with a
\* raise before any adapter is called, and the raise ends its handling: no
\* object, job, ledger item, notification or row is written and the message
\* stays in the queue.
C39_MissingRowRaisesUntouched ==
  [][ /\ (iw.pc = "idle" /\ iw'.pc # "idle" /\ iw'.msg.mediaId \notin DOMAIN media) =>
           /\ iw'.pc = "raise"
           /\ iw'.called = {}
           /\ iw'.ent = NoEntity
      /\ (iw.pc # "idle" /\ iw.msg.mediaId \notin DOMAIN media /\ iw' # iw) =>
           /\ iw.pc = "raise"
           /\ iw'.pc = "idle"
           /\ iw.msg \in mpQueue'
           /\ UNCHANGED <<media, s3Objects, objContent, rekJobs, mcJobs, modLedger,
                          transLedger, profileEvents, mpQueue, vmQueue>> ]_vars

\* the handler of a message naming an unknown asset has raised without a
\* call, the message is still queued and nothing has been written
C39_Witness ==
  /\ iw.pc = "raise"
  /\ iw.msg.mediaId = UnknownId
  /\ UnknownId \notin DOMAIN media
  /\ iw.called = {}
  /\ iw.msg \in mpQueue
  /\ s3Objects = {} /\ DOMAIN modLedger = {} /\ DOMAIN transLedger = {}
  /\ profileEvents = <<>>
====
